---- MODULE Spec2Model ----
(***************************************************************************)
(* Verification model of chainermn/communicators/_base.py:                 *)
(*   _MessageType, CommunicatorBase (rank, size, split, send, recv,        *)
(*   broadcast_data, allreduce_grad) and NodeAwareCommunicatorBase         *)
(*   (__init__, _init_ranks, _init_comms).                                 *)
(*                                                                         *)
(* A state holds, for every MPI process, the communicator objects it has   *)
(* constructed and the call it is executing, plus the messages in flight.  *)
(* mpi4py (send/recv/Send/Recv/Split) and numpy (prod/empty/reshape) are   *)
(* modelled by what they do.  _communication_utility and _memory_utility   *)
(* are not part of the source tree; they are modelled from the design      *)
(* document.                                                               *)
(***************************************************************************)
EXTENDS Integers, Sequences, FiniteSets, TLC

\* ------------------------------------------------------------------ bounds
NProcs == 4      \* processes of COMM_WORLD
NHosts == 2      \* machines the processes may be placed on
MaxArr == 2      \* longest tuple payload
ChanCap == 3     \* messages the transport buffers before a send blocks
MaxComms == 2    \* communicator objects a process keeps alive

Procs == 0 .. (NProcs - 1)
Hosts == 0 .. (NHosts - 1)
Tags == {0}

\* ------------------------------------------------------------ numpy arrays
RECURSIVE IntProd(_)
IntProd(s) == IF s = << >> THEN 1 ELSE Head(s) * IntProd(Tail(s))

\* A float32 array: its shape and its elements in row-major order.  Elements
\* are named by integers (base + position) so that any two arrays of the
\* input set differ in every element.
Arr(shape, base) ==
    [shape |-> shape, data |-> [i \in 1 .. IntProd(shape) |-> base + i]]

Arrays == {Arr(<< >>, 40), Arr(<<3>>, 10), Arr(<<2, 2>>, 20)}

ndim(a) == Len(a.shape)

\* Payloads a caller may hand to send(): an ndarray, a tuple of ndarrays, a
\* plain integer, and a str (an iterable whose elements are no arrays).
TuplesUpTo(n) == UNION {[1 .. k -> Arrays] : k \in 0 .. n}

NdarrayPayloads == {[kind |-> "ndarray", items |-> <<a>>] : a \in Arrays}

TuplePayloads == {[kind |-> "tuple", items |-> s] : s \in TuplesUpTo(MaxArr)}

IntPayload == [kind |-> "int", items |-> << >>]

StrPayload == [kind |-> "str", items |-> << >>]

Payloads == NdarrayPayloads \cup TuplePayloads \cup {IntPayload, StrPayload}

ValidPayloads == NdarrayPayloads \cup TuplePayloads

NoPayload == [kind |-> "none", items |-> << >>]

\* isinstance(obj, numpy.ndarray) / isinstance(obj, collections.Iterable)
is_ndarray(obj) == obj.kind = "ndarray"

is_iterable(obj) == obj.kind \in {"tuple", "str"}

\* Whether every element of an iterable has .ndim and .shape.
has_array_items(obj) == obj.kind = "tuple"

\* ------------------------------------------------------------ _MessageType
NoMsgType ==
    [exc |-> "", is_tuple |-> FALSE, narr |-> 0, ndims |-> << >>, shapes |-> << >>]

\* Mutant: the final else branch does not raise.
_MessageType_NoRaise(obj) ==
    IF is_ndarray(obj)
    THEN [exc |-> "", is_tuple |-> FALSE, narr |-> 1,
          ndims |-> <<ndim(obj.items[1])>>,
          shapes |-> <<obj.items[1].shape>>]
    ELSE IF is_iterable(obj) /\ ~has_array_items(obj)
    THEN [NoMsgType EXCEPT !.exc = "AttributeError"]
    ELSE [exc |-> "", is_tuple |-> TRUE, narr |-> Len(obj.items),
          ndims |-> [i \in 1 .. Len(obj.items) |-> ndim(obj.items[i])],
          shapes |-> [i \in 1 .. Len(obj.items) |-> obj.items[i].shape]]

\* Mutant: a tuple's dimensionalities are listed last element first.
_MessageType_ReversedDims(obj) ==
    IF is_ndarray(obj)
    THEN [exc |-> "", is_tuple |-> FALSE, narr |-> 1,
          ndims |-> <<ndim(obj.items[1])>>,
          shapes |-> <<obj.items[1].shape>>]
    ELSE IF is_iterable(obj)
    THEN IF has_array_items(obj)
         THEN [exc |-> "", is_tuple |-> TRUE, narr |-> Len(obj.items),
               ndims |-> [i \in 1 .. Len(obj.items) |->
                             ndim(obj.items[Len(obj.items) + 1 - i])],
               shapes |-> [i \in 1 .. Len(obj.items) |-> obj.items[i].shape]]
         ELSE [NoMsgType EXCEPT !.exc = "AttributeError"]
    ELSE [NoMsgType EXCEPT !.exc = "ValueError"]

_MessageType(obj) ==
    IF is_ndarray(obj)
    THEN [exc |-> "", is_tuple |-> FALSE, narr |-> 1,
          ndims |-> <<ndim(obj.items[1])>>,
          shapes |-> <<obj.items[1].shape>>]
    ELSE IF is_iterable(obj)
    THEN IF has_array_items(obj)
         THEN [exc |-> "", is_tuple |-> TRUE, narr |-> Len(obj.items),
               ndims |-> [i \in 1 .. Len(obj.items) |-> ndim(obj.items[i])],
               shapes |-> [i \in 1 .. Len(obj.items) |-> obj.items[i].shape]]
         ELSE [NoMsgType EXCEPT !.exc = "AttributeError"]
    ELSE [NoMsgType EXCEPT !.exc = "ValueError"]

\* --------------------------------------------------------------- variables
VARIABLES
    host,        \* placement: the machine each process runs on (fixed)
    ncclAvail,   \* nccl._available (fixed at import)
    actors,      \* the processes whose program the run follows (fixed)
    comms,       \* per process: the communicator objects it has constructed
    call,        \* per process: the call it is executing or has just finished
    net          \* messages handed to the transport and not yet received

vars == <<host, ncclAvail, actors, comms, call, net>>

\* ------------------------------------------------- MPI communicator handles
\* A handle is a communication context (ctx) over an ordered group of
\* processes; a process's rank is its position in the group.
World == [ctx |-> 0, grp |-> [i \in 1 .. NProcs |-> i - 1]]

None == [ctx |-> -1, grp |-> << >>]

\* The attribute does not exist on the object.
NoAttr == [ctx |-> -2, grp |-> << >>]

Members(grp) == {grp[i] : i \in 1 .. Len(grp)}

IndexIn(grp, p) == CHOOSE i \in 1 .. Len(grp) : grp[i] = p

mpi_rank(h, p) == IndexIn(h.grp, p) - 1

mpi_size(h) == Len(h.grp)

\* MPI_Comm_split seen from process p: the members that gave p's color,
\* ordered by key and then by rank in the old group.
Before(grp, key, a, b) ==
    \/ key[a] < key[b]
    \/ key[a] = key[b] /\ IndexIn(grp, a) < IndexIn(grp, b)

MpiSplit(grp, color, key, p) ==
    LET S == {q \in Members(grp) : color[q] = color[p]}
        pos(q) == Cardinality({r \in S : Before(grp, key, r, q)})
    IN  [i \in 1 .. Cardinality(S) |-> CHOOSE q \in S : pos(q) = i - 1]

\* ------------------------------------------- _communication_utility (design)
\* init_ranks: (global rank, intra rank, intra size, inter rank, inter size)
\* of process p in group grp, from the host every member runs on.  Hosts are
\* ordered by their lowest member rank; members of a host by rank.
FirstOn(grp, h) == CHOOSE i \in 1 .. Len(grp) :
    /\ host[grp[i]] = h
    /\ \A j \in 1 .. (i - 1) : host[grp[j]] # h

HostsOf(grp) == {host[q] : q \in Members(grp)}

init_ranks(grp, p) ==
    LET me == IndexIn(grp, p)
        mine == {i \in 1 .. Len(grp) : host[grp[i]] = host[p]}
    IN  << me - 1,
           Cardinality({i \in mine : i < me}),
           Cardinality(mine),
           Cardinality({h \in HostsOf(grp) : FirstOn(grp, h) < FirstOn(grp, host[p])}),
           Cardinality(HostsOf(grp)) >>

\* init_comms on process p: every member of the group calls it with its own
\* ranks; p's own arguments are the ones its object passes.  The intra scope
\* is the split by inter rank keyed by intra rank, the inter scope the split
\* by intra rank keyed by inter rank, the NCCL scope spans the intra scope.
\* base names the contexts created by this construction.
init_comms(mpi_comm, p, intra_rank, intra_size, inter_rank, use_nccl, base) ==
    LET peers == Members(mpi_comm.grp)
        intraOf == [q \in peers |->
            IF q = p THEN intra_rank ELSE init_ranks(mpi_comm.grp, q)[2]]
        interOf == [q \in peers |->
            IF q = p THEN inter_rank ELSE init_ranks(mpi_comm.grp, q)[4]]
        intra == [ctx |-> base + 1,
                  grp |-> MpiSplit(mpi_comm.grp, interOf, intraOf, p)]
        inter == [ctx |-> base + 2,
                  grp |-> MpiSplit(mpi_comm.grp, intraOf, interOf, p)]
    IN  IF use_nccl
        THEN <<intra, inter, [ctx |-> base + 3, grp |-> intra.grp]>>
        ELSE <<intra, inter>>

\* ------------------------------------------------------ communicator objects
\* nbuilt counts the scope constructions completed for the object.
CommunicatorBase__init__(mpi_comm) ==
    [cls |-> "CommunicatorBase", mpi_comm |-> mpi_comm, use_nccl |-> FALSE,
     intra_rank |-> -1, intra_size |-> -1, inter_rank |-> -1, inter_size |-> -1,
     inter_mpi_comm |-> NoAttr, intra_mpi_comm |-> NoAttr,
     intra_nccl_comm |-> NoAttr, nbuilt |-> 0]

\* Mutant: intra rank and intra size are taken from each other's slot.
_init_ranks_Swapped(self, p) ==
    LET my_ranks == init_ranks(self.mpi_comm.grp, p)
    IN  IF my_ranks[1] # mpi_rank(self.mpi_comm, p)
        THEN [exc |-> "AssertionError", self |-> self]
        ELSE [exc |-> "",
              self |-> [self EXCEPT !.intra_rank = my_ranks[3],
                                    !.intra_size = my_ranks[2],
                                    !.inter_rank = my_ranks[4],
                                    !.inter_size = my_ranks[5]]]

\* _init_ranks: returns the object with its topology record set, or raises.
_init_ranks(self, p) ==
    LET my_ranks == init_ranks(self.mpi_comm.grp, p)
    IN  IF my_ranks[1] # mpi_rank(self.mpi_comm, p)
        THEN [exc |-> "AssertionError", self |-> self]
        ELSE [exc |-> "",
              self |-> [self EXCEPT !.intra_rank = my_ranks[2],
                                    !.intra_size = my_ranks[3],
                                    !.inter_rank = my_ranks[4],
                                    !.inter_size = my_ranks[5]]]

\* Mutant: the constructor builds the scopes itself.
NodeAwareCommunicatorBase__init__Eager(mpi_comm, use_nccl, p) ==
    LET s0 == [CommunicatorBase__init__(mpi_comm) EXCEPT
                   !.cls = "NodeAwareCommunicatorBase"]
    IN  IF use_nccl /\ ~ncclAvail
        THEN [exc |-> "RuntimeError", self |-> s0,
              log |-> <<"CommunicatorBase.__init__">>]
        ELSE LET r == _init_ranks([s0 EXCEPT !.use_nccl = use_nccl], p)
                 cs == init_comms(mpi_comm, p, r.self.intra_rank,
                                  r.self.intra_size, r.self.inter_rank,
                                  use_nccl, 0)
             IN  [exc |-> r.exc,
                  self |-> [r.self EXCEPT
                      !.intra_mpi_comm = cs[1],
                      !.inter_mpi_comm = cs[2],
                      !.intra_nccl_comm = IF use_nccl THEN cs[3] ELSE NoAttr],
                  log |-> <<"CommunicatorBase.__init__", "_init_ranks">>]

\* Mutant: the availability check comes after topology discovery.
NodeAwareCommunicatorBase__init__LateCheck(mpi_comm, use_nccl, p) ==
    LET s0 == [CommunicatorBase__init__(mpi_comm) EXCEPT
                   !.cls = "NodeAwareCommunicatorBase",
                   !.use_nccl = use_nccl]
        r == _init_ranks(s0, p)
    IN  IF r.exc # "" \/ (use_nccl /\ ~ncclAvail)
        THEN [exc |-> IF r.exc # "" THEN r.exc ELSE "RuntimeError",
              self |-> r.self,
              log |-> <<"CommunicatorBase.__init__", "_init_ranks">>]
        ELSE [exc |-> "",
              self |-> [r.self EXCEPT
                  !.inter_mpi_comm = None,
                  !.intra_mpi_comm = None,
                  !.intra_nccl_comm = IF use_nccl THEN None ELSE NoAttr],
              log |-> <<"CommunicatorBase.__init__", "_init_ranks">>]

\* NodeAwareCommunicatorBase.__init__: the object, the exception raised (if
\* any) and the methods it called, in order.
NodeAwareCommunicatorBase__init__(mpi_comm, use_nccl, p) ==
    LET s0 == [CommunicatorBase__init__(mpi_comm) EXCEPT
                   !.cls = "NodeAwareCommunicatorBase"]
    IN  IF use_nccl /\ ~ncclAvail
        THEN [exc |-> "RuntimeError", self |-> s0,
              log |-> <<"CommunicatorBase.__init__">>]
        ELSE LET s1 == [s0 EXCEPT !.use_nccl = use_nccl]
                 r == _init_ranks(s1, p)
             IN  IF r.exc # ""
                 THEN [exc |-> r.exc, self |-> r.self,
                       log |-> <<"CommunicatorBase.__init__", "_init_ranks">>]
                 ELSE [exc |-> "",
                       self |-> [r.self EXCEPT
                           !.inter_mpi_comm = None,
                           !.intra_mpi_comm = None,
                           !.intra_nccl_comm =
                               IF r.self.use_nccl THEN None ELSE NoAttr],
                       log |-> <<"CommunicatorBase.__init__", "_init_ranks">>]

\* Mutant: no early return for an object whose scopes exist.
_init_comms_NoGuard(self, p, i, fails) ==
    IF fails
    THEN [exc |-> "TransportError", self |-> self, log |-> <<"init_comms">>]
    ELSE LET cs == init_comms(self.mpi_comm, p, self.intra_rank,
                              self.intra_size, self.inter_rank, self.use_nccl,
                              100 * i + 10 * self.nbuilt)
         IN  [exc |-> "",
              self |-> [self EXCEPT
                  !.intra_mpi_comm = cs[1],
                  !.inter_mpi_comm = cs[2],
                  !.intra_nccl_comm = IF self.use_nccl THEN cs[3] ELSE @,
                  !.nbuilt = @ + 1],
              log |-> <<"init_comms">>]

\* Mutant: a construction that raises has already stored the intra and inter
\* scopes.
_init_comms_Partial(self, p, i, fails) ==
    IF self.inter_mpi_comm # None
    THEN [exc |-> "", self |-> self, log |-> << >>]
    ELSE LET cs == init_comms(self.mpi_comm, p, self.intra_rank,
                              self.intra_size, self.inter_rank, self.use_nccl,
                              100 * i + 10 * self.nbuilt)
         IN  IF fails
             THEN [exc |-> "TransportError",
                   self |-> [self EXCEPT !.intra_mpi_comm = cs[1],
                                         !.inter_mpi_comm = cs[2]],
                   log |-> <<"init_comms">>]
             ELSE [exc |-> "",
                   self |-> [self EXCEPT
                       !.intra_mpi_comm = cs[1],
                       !.inter_mpi_comm = cs[2],
                       !.intra_nccl_comm = IF self.use_nccl THEN cs[3] ELSE @,
                       !.nbuilt = @ + 1],
                   log |-> <<"init_comms">>]

\* Mutant: the NCCL scope is never stored.
_init_comms_NoNccl(self, p, i, fails) ==
    IF self.inter_mpi_comm # None
    THEN IF self.intra_mpi_comm = None
            \/ (self.use_nccl /\ self.intra_nccl_comm = None)
         THEN [exc |-> "AssertionError", self |-> self, log |-> << >>]
         ELSE [exc |-> "", self |-> self, log |-> << >>]
    ELSE IF fails
    THEN [exc |-> "TransportError", self |-> self, log |-> <<"init_comms">>]
    ELSE LET cs == init_comms(self.mpi_comm, p, self.intra_rank,
                              self.intra_size, self.inter_rank, self.use_nccl,
                              100 * i + 10 * self.nbuilt)
         IN  [exc |-> "",
              self |-> [self EXCEPT
                  !.intra_mpi_comm = cs[1],
                  !.inter_mpi_comm = cs[2],
                  !.nbuilt = @ + 1],
              log |-> <<"init_comms">>]

\* _init_comms on object number i of process p.  fails says whether the
\* underlying construction raises (an MPI or NCCL error).
_init_comms(self, p, i, fails) ==
    IF self.inter_mpi_comm # None
    THEN IF self.intra_mpi_comm = None
            \/ (self.use_nccl /\ self.intra_nccl_comm = None)
         THEN [exc |-> "AssertionError", self |-> self, log |-> << >>]
         ELSE [exc |-> "", self |-> self, log |-> << >>]
    ELSE IF fails
    THEN [exc |-> "TransportError", self |-> self, log |-> <<"init_comms">>]
    ELSE LET cs == init_comms(self.mpi_comm, p, self.intra_rank,
                              self.intra_size, self.inter_rank, self.use_nccl,
                              100 * i + 10 * self.nbuilt)
         IN  [exc |-> "",
              self |-> [self EXCEPT
                  !.intra_mpi_comm = cs[1],
                  !.inter_mpi_comm = cs[2],
                  !.intra_nccl_comm = IF self.use_nccl THEN cs[3] ELSE @,
                  !.nbuilt = @ + 1],
              log |-> <<"init_comms">>]

\* ---------------------------------------------------------------- call frames
\* pc: "idle" (no call), "send" / "recv" (inside the bulk loop), "done" (the
\* call has returned or raised and the caller has not yet gone on).
\* op/obj/arg/peer/tag: the method called, the communicator object it was
\* called on and its arguments.  log: the calls the method has issued so far.
\* exc: the exception raised ("" if none).  value/num: what it returned.
\* buf: the receive buffer of the latest turn of recv()'s loop, as allocated.
Idle ==
    [pc |-> "idle", op |-> "", obj |-> 0, arg |-> NoPayload, peer |-> -1,
     tag |-> -1, mt |-> NoMsgType, todo |-> << >>, k |-> 0, msg |-> << >>,
     log |-> << >>, exc |-> "", value |-> NoPayload, num |-> -1,
     sent |-> NoPayload, buf |-> << >>]

Done(op, i, exc) == [Idle EXCEPT !.pc = "done", !.op = op, !.obj = i, !.exc = exc]

\* ------------------------------------------------------------------ transport
\* A message carries its envelope (ctx, src, dst, tag) and either a pickled
\* object (kind "obj": the descriptor) or a raw buffer (kind "buf").  payload
\* remembers, for a header, the payload of the send that issued it.
ObjMsg(h, src, dst, tag, mt, payload) ==
    [ctx |-> h.ctx, src |-> src, dst |-> dst, tag |-> tag, kind |-> "obj",
     mt |-> mt, data |-> << >>, payload |-> payload]

BufMsg(h, src, dst, tag, data) ==
    [ctx |-> h.ctx, src |-> src, dst |-> dst, tag |-> tag, kind |-> "buf",
     mt |-> NoMsgType, data |-> data, payload |-> NoPayload]

Matches(m, h, src, dst, tag) ==
    m.ctx = h.ctx /\ m.src = src /\ m.dst = dst /\ m.tag = tag

HasMatch(h, src, dst, tag) ==
    \E j \in 1 .. Len(net) : Matches(net[j], h, src, dst, tag)

\* MPI matches the oldest message with the envelope (non-overtaking).
FirstMatch(h, src, dst, tag) ==
    CHOOSE j \in 1 .. Len(net) :
        /\ Matches(net[j], h, src, dst, tag)
        /\ \A l \in 1 .. (j - 1) : ~Matches(net[l], h, src, dst, tag)

Without(q, j) == SubSeq(q, 1, j - 1) \o SubSeq(q, j + 1, Len(q))

\* _memory_utility.array_to_buffer_object (design): the contiguous view of
\* the array's elements.
array_to_buffer_object(array) == array.data

\* ---------------------------------------------------------------------- numpy
\* Mutant: the element count is the first dimension only.
numpy_prod_FirstDim(shape) ==
    [val |-> IF shape = << >> THEN 1 ELSE shape[1], isfloat |-> (shape = << >>)]

\* numpy.prod of a shape tuple: the empty product is the float 1.0.
numpy_prod(shape) == [val |-> IntProd(shape), isfloat |-> (shape = << >>)]

\* numpy.empty(n): a float count is accepted (with a warning) by numpy
\* before 1.12 and is a TypeError from 1.12 on.
numpy_empty_ok(n) == IF n.isfloat THEN {TRUE, FALSE} ELSE {TRUE}

\* What an uninitialised float32 slot may hold.
Uninit == {0, 99}

\* Recv into buf: the message's elements, then whatever buf held.
FillBuffer(buf, data) ==
    [j \in 1 .. Len(buf) |-> IF j <= Len(data) THEN data[j] ELSE buf[j]]

\* -------------------------------------------------------------- send and recv
\* Mutant: the arrays are transmitted last element first.
send_sequence_Reversed(msgtype, obj) ==
    IF ~msgtype.is_tuple
    THEN <<obj.items[1]>>
    ELSE [j \in 1 .. Len(obj.items) |-> obj.items[Len(obj.items) + 1 - j]]

\* send(), line 83-84: the arrays to transmit, in order.
send_sequence(msgtype, obj) ==
    IF ~msgtype.is_tuple THEN <<obj.items[1]>> ELSE obj.items

\* Mutant: send() goes over the intra scope once the scopes are built.
send_OverIntraScope(p, i, obj, dest, tag) ==
    /\ p \in actors /\ call[p].pc = "idle" /\ i \in DOMAIN comms[p]
    /\ LET self == comms[p][i]
           h == IF self.intra_mpi_comm.ctx >= 0
                THEN self.intra_mpi_comm ELSE self.mpi_comm
           msgtype == _MessageType(obj)
           todo == send_sequence(msgtype, obj)
       IN  IF msgtype.exc # ""
           THEN /\ call' = [call EXCEPT ![p] =
                        [Done("send", i, msgtype.exc) EXCEPT !.arg = obj]]
                /\ net' = net
           ELSE /\ Len(net) < ChanCap
                /\ net' = Append(net,
                       ObjMsg(h, mpi_rank(h, p), dest, tag, msgtype, obj))
                /\ call' = [call EXCEPT ![p] =
                       [Idle EXCEPT
                           !.pc = IF todo = << >> THEN "done" ELSE "send",
                           !.op = "send", !.obj = i, !.arg = obj,
                           !.peer = dest, !.tag = tag, !.mt = msgtype,
                           !.todo = todo, !.k = 1,
                           !.log = <<[fn |-> "send", data |-> << >>]>>]]
    /\ UNCHANGED <<host, ncclAvail, actors, comms>>

\* send() up to and including the header transfer (lines 77-84).
send(p, i, obj, dest, tag) ==
    /\ p \in actors /\ call[p].pc = "idle" /\ i \in DOMAIN comms[p]
    /\ LET self == comms[p][i]
           msgtype == _MessageType(obj)
           me == mpi_rank(self.mpi_comm, p)
           todo == send_sequence(msgtype, obj)
       IN  IF msgtype.exc # ""
           THEN /\ call' = [call EXCEPT ![p] =
                        [Done("send", i, msgtype.exc) EXCEPT !.arg = obj]]
                /\ net' = net
           ELSE /\ Len(net) < ChanCap
                /\ net' = Append(net,
                       ObjMsg(self.mpi_comm, me, dest, tag, msgtype, obj))
                /\ call' = [call EXCEPT ![p] =
                       [Idle EXCEPT
                           !.pc = IF todo = << >> THEN "done" ELSE "send",
                           !.op = "send", !.obj = i, !.arg = obj,
                           !.peer = dest, !.tag = tag, !.mt = msgtype,
                           !.todo = todo, !.k = 1,
                           !.log = <<[fn |-> "send", data |-> << >>]>>]]
    /\ UNCHANGED <<host, ncclAvail, actors, comms>>

\* One turn of send()'s loop (lines 86-91); returns after the last array.
send_bulk(p) ==
    /\ p \in actors /\ call[p].pc = "send"
    /\ Len(net) < ChanCap
    /\ LET f == call[p]
           self == comms[p][f.obj]
           buf == array_to_buffer_object(f.todo[f.k])
       IN  /\ net' = Append(net, BufMsg(self.mpi_comm,
                         mpi_rank(self.mpi_comm, p), f.peer, f.tag, buf))
           /\ call' = [call EXCEPT ![p] =
                  [f EXCEPT !.pc = IF f.k = Len(f.todo) THEN "done" ELSE "send",
                            !.k = f.k + 1,
                            !.log = Append(f.log, [fn |-> "Send", data |-> buf])]]
    /\ UNCHANGED <<host, ncclAvail, actors, comms>>

\* Mutant: a transfer of no arrays returns None.
recv_result_NoneWhenEmpty(msgtype, msg) ==
    IF msg = << >>
    THEN NoPayload
    ELSE IF msgtype.is_tuple
    THEN [kind |-> "tuple", items |-> msg]
    ELSE [kind |-> "ndarray", items |-> <<msg[1]>>]

\* recv(), lines 113-126: what is returned once every array is in.
recv_result(msgtype, msg) ==
    IF msgtype.is_tuple
    THEN [kind |-> "tuple", items |-> msg]
    ELSE [kind |-> "ndarray", items |-> <<msg[1]>>]

\* recv() up to the first allocation (lines 108-115, 122-123): the header.
recv(p, i, source, tag) ==
    /\ p \in actors /\ call[p].pc = "idle" /\ i \in DOMAIN comms[p]
    /\ LET self == comms[p][i]
           me == mpi_rank(self.mpi_comm, p)
       IN  /\ HasMatch(self.mpi_comm, source, me, tag)
           /\ LET j == FirstMatch(self.mpi_comm, source, me, tag)
                  m == net[j]
                  f == [Idle EXCEPT !.op = "recv", !.obj = i, !.peer = source,
                            !.tag = tag, !.mt = m.mt, !.k = 1,
                            !.sent = m.payload,
                            !.log = <<[fn |-> "recv", data |-> << >>]>>]
              IN  /\ net' = Without(net, j)
                  /\ call' = [call EXCEPT ![p] =
                       IF m.kind # "obj"
                       THEN [f EXCEPT !.pc = "done", !.exc = "UnpicklingError"]
                       ELSE IF ~m.mt.is_tuple /\ Len(m.mt.shapes) # 1
                       THEN [f EXCEPT !.pc = "done", !.exc = "AssertionError"]
                       ELSE IF m.mt.shapes = << >>
                       THEN [f EXCEPT !.pc = "done",
                                      !.value = recv_result(m.mt, << >>)]
                       ELSE [f EXCEPT !.pc = "recv"]]
    /\ UNCHANGED <<host, ncclAvail, actors, comms>>

\* One turn of recv()'s loop (lines 115-118, 123-126): allocate, receive,
\* reshape; returns after the last declared shape.
recv_bulk(p) ==
    /\ p \in actors /\ call[p].pc = "recv"
    /\ LET f == call[p]
           self == comms[p][f.obj]
           me == mpi_rank(self.mpi_comm, p)
           shape == f.mt.shapes[f.k]
           n == numpy_prod(shape)
       IN  \E ok \in numpy_empty_ok(n) :
           IF ~ok
           THEN /\ call' = [call EXCEPT ![p] =
                       [f EXCEPT !.pc = "done", !.exc = "TypeError"]]
                /\ net' = net
           ELSE /\ HasMatch(self.mpi_comm, f.peer, me, f.tag)
                /\ \E g \in Uninit :
                   LET j == FirstMatch(self.mpi_comm, f.peer, me, f.tag)
                       m == net[j]
                       buf0 == [x \in 1 .. n.val |-> g]
                       buf == FillBuffer(buf0, m.data)
                       log1 == Append(f.log, [fn |-> "Recv", data |-> m.data])
                       msg1 == Append(f.msg, [shape |-> shape, data |-> buf])
                   IN  /\ net' = Without(net, j)
                       /\ call' = [call EXCEPT ![p] =
                            IF m.kind # "buf" \/ Len(m.data) > n.val
                            THEN [f EXCEPT !.pc = "done", !.log = log1,
                                           !.buf = buf0,
                                           !.exc = "TransportError"]
                            ELSE IF f.k = Len(f.mt.shapes)
                            THEN [f EXCEPT !.pc = "done", !.log = log1,
                                           !.k = f.k + 1, !.msg = msg1,
                                           !.buf = buf0,
                                           !.value = recv_result(f.mt, msg1)]
                            ELSE [f EXCEPT !.log = log1, !.k = f.k + 1,
                                           !.buf = buf0, !.msg = msg1]]
    /\ UNCHANGED <<host, ncclAvail, actors, comms>>

\* ------------------------------------------------------- transport failures
\* mpi4py raises an exception when a transport call fails; send() and recv()
\* catch nothing, so the exception leaves them.  Whether the message of a
\* failed transfer was moved is not defined (moved says so).
\* The header transfer of send() raises (line 81).
send_raises(p, i, obj, dest, tag, moved) ==
    /\ p \in actors /\ call[p].pc = "idle" /\ i \in DOMAIN comms[p]
    /\ LET self == comms[p][i]
           msgtype == _MessageType(obj)
           me == mpi_rank(self.mpi_comm, p)
       IN  /\ msgtype.exc = ""
           /\ moved => Len(net) < ChanCap
           /\ net' = IF moved
                     THEN Append(net,
                              ObjMsg(self.mpi_comm, me, dest, tag, msgtype, obj))
                     ELSE net
           /\ call' = [call EXCEPT ![p] =
                  [Idle EXCEPT
                      !.pc = "done", !.exc = "TransportError",
                      !.op = "send", !.obj = i, !.arg = obj,
                      !.peer = dest, !.tag = tag, !.mt = msgtype,
                      !.todo = send_sequence(msgtype, obj), !.k = 1,
                      !.log = <<[fn |-> "send", data |-> << >>]>>]]
    /\ UNCHANGED <<host, ncclAvail, actors, comms>>

\* Mutant: a bulk transfer that raises is logged and the loop goes on.
send_bulk_raises_Continues(p, moved) ==
    /\ p \in actors /\ call[p].pc = "send"
    /\ ~moved
    /\ LET f == call[p]
           buf == array_to_buffer_object(f.todo[f.k])
       IN  call' = [call EXCEPT ![p] =
               [f EXCEPT !.pc = IF f.k = Len(f.todo) THEN "done" ELSE "send",
                         !.k = f.k + 1,
                         !.exc = "TransportError",
                         !.log = Append(f.log, [fn |-> "Send", data |-> buf])]]
    /\ UNCHANGED <<host, ncclAvail, actors, comms, net>>

\* The bulk transfer of one turn of send()'s loop raises (line 91).
send_bulk_raises(p, moved) ==
    /\ p \in actors /\ call[p].pc = "send"
    /\ moved => Len(net) < ChanCap
    /\ LET f == call[p]
           self == comms[p][f.obj]
           buf == array_to_buffer_object(f.todo[f.k])
       IN  /\ net' = IF moved
                     THEN Append(net, BufMsg(self.mpi_comm,
                              mpi_rank(self.mpi_comm, p), f.peer, f.tag, buf))
                     ELSE net
           /\ call' = [call EXCEPT ![p] =
                  [f EXCEPT !.pc = "done", !.exc = "TransportError",
                            !.log = Append(f.log, [fn |-> "Send", data |-> buf])]]
    /\ UNCHANGED <<host, ncclAvail, actors, comms>>

\* The header receive of recv() raises (line 111).
recv_raises(p, i, source, tag, moved) ==
    /\ p \in actors /\ call[p].pc = "idle" /\ i \in DOMAIN comms[p]
    /\ LET self == comms[p][i]
           me == mpi_rank(self.mpi_comm, p)
       IN  /\ moved => HasMatch(self.mpi_comm, source, me, tag)
           /\ net' = IF moved
                     THEN Without(net, FirstMatch(self.mpi_comm, source, me, tag))
                     ELSE net
           /\ call' = [call EXCEPT ![p] =
                  [Idle EXCEPT
                      !.pc = "done", !.exc = "TransportError",
                      !.op = "recv", !.obj = i, !.peer = source, !.tag = tag,
                      !.k = 1, !.log = <<[fn |-> "recv", data |-> << >>]>>]]
    /\ UNCHANGED <<host, ncclAvail, actors, comms>>

\* The bulk receive of one turn of recv()'s loop raises (lines 117, 125).
recv_bulk_raises(p, moved) ==
    /\ p \in actors /\ call[p].pc = "recv"
    /\ LET f == call[p]
           self == comms[p][f.obj]
           me == mpi_rank(self.mpi_comm, p)
           n == numpy_prod(f.mt.shapes[f.k])
       IN  /\ TRUE \in numpy_empty_ok(n)
           /\ moved => HasMatch(self.mpi_comm, f.peer, me, f.tag)
           /\ net' = IF moved
                     THEN Without(net,
                              FirstMatch(self.mpi_comm, f.peer, me, f.tag))
                     ELSE net
           /\ \E g \in Uninit :
                  call' = [call EXCEPT ![p] =
                      [f EXCEPT !.pc = "done", !.exc = "TransportError",
                                !.buf = [x \in 1 .. n.val |-> g],
                                !.log = Append(f.log,
                                            [fn |-> "Recv", data |-> << >>])]]
    /\ UNCHANGED <<host, ncclAvail, actors, comms>>

\* The caller goes on after a call has returned or raised.
Resume(p) ==
    /\ p \in actors /\ call[p].pc = "done"
    /\ call' = [call EXCEPT ![p] = Idle]
    /\ UNCHANGED <<host, ncclAvail, actors, comms, net>>

\* --------------------------------------------------- the transfer protocol
\* Process 0 sends to process 1 over COMM_WORLD; each holds a base facade.
Sender == World.grp[1]

Receiver == World.grp[2]

InitXfer ==
    /\ host = [p \in Procs |-> p % NHosts]
    /\ ncclAvail = TRUE
    /\ actors = {Sender, Receiver}
    /\ comms = [p \in Procs |->
           IF p \in {Sender, Receiver}
           THEN <<CommunicatorBase__init__(World)>> ELSE << >>]
    /\ call = [p \in Procs |-> Idle]
    /\ net = << >>

NextXfer ==
    \/ \E obj \in Payloads, tag \in Tags : send(Sender, 1, obj, Receiver, tag)
    \/ send_bulk(Sender)
    \/ \E tag \in Tags : recv(Receiver, 1, Sender, tag)
    \/ recv_bulk(Receiver)
    \/ \E p \in Procs : Resume(p)

SpecXfer == InitXfer /\ [][NextXfer]_vars

\* The transfer protocol over a reliable and fair transport, between callers
\* that go on: a send inside its loop issues its next transfer when the
\* transport has room, the receiver calls recv when a message waits for it, a
\* recv inside its loop takes its next turn, and a caller resumes after a
\* call.  Whether the sender calls send again is left open.
SpecXferFair ==
    /\ SpecXfer
    /\ WF_vars(send_bulk(Sender))
    /\ WF_vars(\E tag \in Tags : recv(Receiver, 1, Sender, tag))
    /\ WF_vars(recv_bulk(Receiver))
    /\ \A p \in {Sender, Receiver} : WF_vars(Resume(p))

\* ------------------------------------------- the protocol, transport failing
\* The transfer protocol over a transport whose calls may raise: an array or
\* a tuple of two arrays is sent.
FaultPayloads ==
    {[kind |-> "ndarray", items |-> <<Arr(<<3>>, 10)>>],
     [kind |-> "tuple", items |-> <<Arr(<<3>>, 10), Arr(<<2, 2>>, 20)>>]}

NextFault ==
    \/ \E obj \in FaultPayloads, tag \in Tags :
           \E moved \in BOOLEAN :
               \/ send(Sender, 1, obj, Receiver, tag)
               \/ send_raises(Sender, 1, obj, Receiver, tag, moved)
    \/ \E moved \in BOOLEAN :
           \/ send_bulk(Sender)
           \/ send_bulk_raises(Sender, moved)
    \/ \E tag \in Tags, moved \in BOOLEAN :
           \/ recv(Receiver, 1, Sender, tag)
           \/ recv_raises(Receiver, 1, Sender, tag, moved)
    \/ \E moved \in BOOLEAN :
           \/ recv_bulk(Receiver)
           \/ recv_bulk_raises(Receiver, moved)
    \/ \E p \in Procs : Resume(p)

SpecFault == InitXfer /\ [][NextFault]_vars

\* ------------------------------------------- the protocol, headers by hand
\* The process group is a public attribute: a peer may send a descriptor it
\* has built itself with mpi_comm.send, which recv() reads at line 111.
\* Descriptors that are not tuples and declare no or two shapes.
HandMadeDescriptors ==
    {[exc |-> "", is_tuple |-> FALSE, narr |-> 0, ndims |-> << >>,
      shapes |-> << >>],
     [exc |-> "", is_tuple |-> FALSE, narr |-> 2, ndims |-> <<1, 1>>,
      shapes |-> <<<<3>>, <<3>>>>]}

\* self.mpi_comm.send(msgtype, dest=dest, tag=tag), called by the peer.
mpi_comm_send(p, i, msgtype, dest, tag) ==
    /\ p \in actors /\ call[p].pc = "idle" /\ i \in DOMAIN comms[p]
    /\ Len(net) < ChanCap
    /\ LET self == comms[p][i]
       IN  net' = Append(net, ObjMsg(self.mpi_comm, mpi_rank(self.mpi_comm, p),
                                     dest, tag, msgtype, NoPayload))
    /\ UNCHANGED <<host, ncclAvail, actors, comms, call>>

\* An array, a 0-d array or a tuple of one array is sent with send().
HandPayloads ==
    {[kind |-> "ndarray", items |-> <<Arr(<<3>>, 10)>>],
     [kind |-> "ndarray", items |-> <<Arr(<< >>, 40)>>],
     [kind |-> "tuple", items |-> <<Arr(<<3>>, 10)>>]}

NextHand ==
    \/ \E obj \in HandPayloads, tag \in Tags :
           send(Sender, 1, obj, Receiver, tag)
    \/ \E msgtype \in HandMadeDescriptors, tag \in Tags :
           mpi_comm_send(Sender, 1, msgtype, Receiver, tag)
    \/ send_bulk(Sender)
    \/ \E tag \in Tags : recv(Receiver, 1, Sender, tag)
    \/ recv_bulk(Receiver)
    \/ \E p \in Procs : Resume(p)

SpecHand == InitXfer /\ [][NextHand]_vars

\* ------------------------------------------------- communicator life cycle
\* rank and size delegate to the process group (lines 33-39).
rank(p, i) ==
    /\ p \in actors /\ call[p].pc = "idle" /\ i \in DOMAIN comms[p]
    /\ call' = [call EXCEPT ![p] =
           [Done("rank", i, "") EXCEPT !.num = mpi_rank(comms[p][i].mpi_comm, p)]]
    /\ UNCHANGED <<host, ncclAvail, actors, comms, net>>

size(p, i) ==
    /\ p \in actors /\ call[p].pc = "idle" /\ i \in DOMAIN comms[p]
    /\ call' = [call EXCEPT ![p] =
           [Done("size", i, "") EXCEPT !.num = mpi_size(comms[p][i].mpi_comm)]]
    /\ UNCHANGED <<host, ncclAvail, actors, comms, net>>

\* cls(mpi_comm=h): NodeAwareCommunicatorBase.__init__ also requires use_nccl.
Instantiate(cls, h) ==
    IF cls = "CommunicatorBase"
    THEN [exc |-> "", self |-> CommunicatorBase__init__(h)]
    ELSE [exc |-> "TypeError", self |-> CommunicatorBase__init__(h)]

\* split (line 60): self.__class__(mpi_comm=self.mpi_comm.Split(color, key)).
CommunicatorBase_split(self, p, ctx, colorOf, keyOf) ==
    Instantiate(self.cls,
        [ctx |-> ctx, grp |-> MpiSplit(self.mpi_comm.grp, colorOf, keyOf, p)])

\* What the other members of the group pass to the collective Split: the
\* parity of their rank as the color and their rank as the key.
PeerColorings == {[q \in Procs |-> q % 2]}

Colors == {0, 1}

Keys == {0, NProcs}

split(p, i, color, key, others) ==
    /\ p \in actors /\ call[p].pc = "idle" /\ i \in DOMAIN comms[p]
    /\ LET self == comms[p][i]
           grp == self.mpi_comm.grp
           colorOf == [q \in Members(grp) |-> IF q = p THEN color ELSE others[q]]
           keyOf == [q \in Members(grp) |->
                        IF q = p THEN key ELSE IndexIn(grp, q) - 1]
           n == Len(comms[p]) + 1
           r == CommunicatorBase_split(self, p, 100 * n, colorOf, keyOf)
       IN  /\ r.exc = "" => Len(comms[p]) < MaxComms
           /\ comms' = IF r.exc = ""
                       THEN [comms EXCEPT ![p] = Append(@, r.self)]
                       ELSE comms
           /\ call' = [call EXCEPT ![p] =
                  [Done("split", i, r.exc) EXCEPT
                      !.num = IF r.exc = "" THEN n ELSE -1]]
    /\ UNCHANGED <<host, ncclAvail, actors, net>>

\* CommunicatorBase(mpi_comm=COMM_WORLD)
construct_base(p) ==
    /\ p \in actors /\ call[p].pc = "idle" /\ Len(comms[p]) < MaxComms
    /\ comms' = [comms EXCEPT ![p] = Append(@, CommunicatorBase__init__(World))]
    /\ call' = [call EXCEPT ![p] =
           [Done("CommunicatorBase", Len(comms[p]) + 1, "") EXCEPT
               !.num = Len(comms[p]) + 1]]
    /\ UNCHANGED <<host, ncclAvail, actors, net>>

\* NodeAwareCommunicatorBase(COMM_WORLD, use_nccl)
construct_node_aware(p, use_nccl) ==
    /\ p \in actors /\ call[p].pc = "idle" /\ Len(comms[p]) < MaxComms
    /\ LET r == NodeAwareCommunicatorBase__init__(World, use_nccl, p)
           n == Len(comms[p]) + 1
       IN  /\ comms' = IF r.exc = ""
                       THEN [comms EXCEPT ![p] = Append(@, r.self)]
                       ELSE comms
           /\ call' = [call EXCEPT ![p] =
                  [Done("NodeAwareCommunicatorBase", n, r.exc) EXCEPT
                      !.num = IF r.exc = "" THEN n ELSE -1,
                      !.k = IF use_nccl THEN 1 ELSE 0,
                      !.log = r.log]]
    /\ UNCHANGED <<host, ncclAvail, actors, net>>

\* self._init_comms() as the first step of a collective operation.
call_init_comms(p, i, fails) ==
    /\ p \in actors /\ call[p].pc = "idle" /\ i \in DOMAIN comms[p]
    /\ comms[p][i].cls = "NodeAwareCommunicatorBase"
    /\ LET r == _init_comms(comms[p][i], p, i, fails)
       IN  /\ comms' = [comms EXCEPT ![p][i] = r.self]
           /\ call' = [call EXCEPT ![p] =
                  [Done("_init_comms", i, r.exc) EXCEPT !.log = r.log]]
    /\ UNCHANGED <<host, ncclAvail, actors, net>>

\* Mutant: broadcast_data builds the scopes before it raises.
broadcast_data_body_Builds(self) ==
    [exc |-> "NotImplementedError",
     self |-> IF self.cls = "NodeAwareCommunicatorBase"
              THEN [self EXCEPT !.inter_mpi_comm = self.mpi_comm,
                                !.intra_mpi_comm = self.mpi_comm]
              ELSE self,
     log |-> <<"init_comms">>]

\* broadcast_data / allreduce_grad (lines 128-132): what the call raises,
\* the object afterwards and the transport calls issued.
broadcast_data_body(self) ==
    [exc |-> "NotImplementedError", self |-> self, log |-> << >>]

allreduce_grad_body(self) ==
    [exc |-> "NotImplementedError", self |-> self, log |-> << >>]

broadcast_data(p, i) ==
    /\ p \in actors /\ call[p].pc = "idle" /\ i \in DOMAIN comms[p]
    /\ LET r == broadcast_data_body(comms[p][i])
       IN  /\ comms' = [comms EXCEPT ![p][i] = r.self]
           /\ call' = [call EXCEPT ![p] =
                  [Done("broadcast_data", i, r.exc) EXCEPT !.log = r.log]]
    /\ UNCHANGED <<host, ncclAvail, actors, net>>

allreduce_grad(p, i) ==
    /\ p \in actors /\ call[p].pc = "idle" /\ i \in DOMAIN comms[p]
    /\ LET r == allreduce_grad_body(comms[p][i])
       IN  /\ comms' = [comms EXCEPT ![p][i] = r.self]
           /\ call' = [call EXCEPT ![p] =
                  [Done("allreduce_grad", i, r.exc) EXCEPT !.log = r.log]]
    /\ UNCHANGED <<host, ncclAvail, actors, net>>

\* ------------------------------------------------ one process's communicators
\* One process of COMM_WORLD (any rank; two processes per machine) constructs
\* communicators, splits them, builds their scopes and transfers payloads to
\* itself.
BlockPlacement == [p \in Procs |-> (p \div 2) % NHosts]

CommPayloads ==
    {[kind |-> "ndarray", items |-> <<Arr(<<3>>, 10)>>], IntPayload}

InitComm ==
    /\ host = BlockPlacement
    /\ ncclAvail \in BOOLEAN
    /\ \E me \in Procs : actors = {me}
    /\ comms = [p \in Procs |-> << >>]
    /\ call = [p \in Procs |-> Idle]
    /\ net = << >>

NextComm ==
    \E p \in Procs :
        \/ construct_base(p)
        \/ \E use_nccl \in BOOLEAN : construct_node_aware(p, use_nccl)
        \/ \E i \in 1 .. MaxComms :
            \/ rank(p, i)
            \/ size(p, i)
            \/ \E c \in Colors, k \in Keys, o \in PeerColorings :
                   split(p, i, c, k, o)
            \/ \E fails \in BOOLEAN : call_init_comms(p, i, fails)
            \/ broadcast_data(p, i)
            \/ allreduce_grad(p, i)
            \/ \E obj \in CommPayloads, tag \in Tags :
                   send(p, i, obj, mpi_rank(comms[p][i].mpi_comm, p), tag)
            \/ \E tag \in Tags :
                   recv(p, i, mpi_rank(comms[p][i].mpi_comm, p), tag)
        \/ send_bulk(p)
        \/ recv_bulk(p)
        \/ Resume(p)

SpecComm == InitComm /\ [][NextComm]_vars

\* ------------------------------------------------------- topology discovery
\* Every process of COMM_WORLD, under any placement, constructs one
\* node-aware communicator.
InitTopo ==
    /\ host \in [Procs -> Hosts]
    /\ ncclAvail = FALSE
    /\ actors = Procs
    /\ comms = [p \in Procs |-> << >>]
    /\ call = [p \in Procs |-> Idle]
    /\ net = << >>

NextTopo ==
    \E p \in Procs :
        \/ Len(comms[p]) = 0 /\ construct_node_aware(p, FALSE)
        \/ Resume(p)

SpecTopo == InitTopo /\ [][NextTopo]_vars

\* ===================================================================== claims
IsValid(obj) == obj \in ValidPayloads

\* ---------------------------------------------------------------------- C1
\* C1 (round trip): a recv matched with the send of a valid payload (an
\* array or a tuple of arrays) returns, without raising, a value of the same
\* kind with the same arrays in the same order, each with the payload's
\* shape and elements.
C1_RoundTrip ==
    \A p \in Procs :
        (call[p].pc = "done" /\ call[p].op = "recv" /\ IsValid(call[p].sent))
            => (call[p].exc = "" /\ call[p].value = call[p].sent)

\* ---------------------------------------------------------------------- C2
\* The transport calls a complete send(obj) issues / recv of obj consumes.
SendCalls(obj) ==
    <<[fn |-> "send", data |-> << >>]>> \o
        [j \in 1 .. Len(obj.items) |-> [fn |-> "Send", data |-> obj.items[j].data]]

RecvCalls(obj) ==
    <<[fn |-> "recv", data |-> << >>]>> \o
        [j \in 1 .. Len(obj.items) |-> [fn |-> "Recv", data |-> obj.items[j].data]]

IsPrefix(s, t) == Len(s) <= Len(t) /\ s = SubSeq(t, 1, Len(s))

Calls(p, op) == call[p].pc = "idle" /\ call'[p].op = op

NeitherArrayNorIterable(obj) == ~is_ndarray(obj) /\ ~is_iterable(obj)

\* C3 (invalid payload): a send whose payload is neither an array nor an
\* iterable raises ValueError at once, has issued no transport call, and
\* leaves the messages in flight as they were.
C3_InvalidPayloadRejected ==
    [][\A p \in Procs :
          (Calls(p, "send") /\ NeitherArrayNorIterable(call'[p].arg)) =>
              /\ call'[p].pc = "done"
              /\ call'[p].exc = "ValueError"
              /\ call'[p].log = << >>
              /\ net' = net]_vars

C3_Witness ==
    /\ call[Sender].pc = "done" /\ call[Sender].op = "send"
    /\ call[Sender].arg = IntPayload
    /\ call[Sender].exc = "ValueError"
    /\ net # << >>

\* ---------------------------------------------------------------------- C8
\* The descriptor mt describes the payload obj faithfully.
Describes(mt, obj) ==
    /\ mt.narr = Len(mt.shapes)
    /\ mt.narr = Len(mt.ndims)
    /\ \A j \in 1 .. mt.narr : Len(mt.shapes[j]) = mt.ndims[j]
    /\ obj.kind = "ndarray" =>
          /\ ~mt.is_tuple
          /\ mt.narr = 1
          /\ mt.shapes[1] = obj.items[1].shape
    /\ obj.kind = "tuple" =>
          /\ mt.is_tuple
          /\ mt.narr = Len(obj.items)
          /\ \A j \in 1 .. Len(obj.items) : mt.shapes[j] = obj.items[j].shape

\* C8 (descriptor fidelity): every descriptor a send has constructed, held by
\* the sender or travelling as a header, has as many shapes and dims as
\* arrays, each shape as long as its dims entry; it is not a tuple with one
\* array for an ndarray, a tuple with one entry per element, in element
\* order, for an iterable.
C8_DescriptorFidelity ==
    /\ \A p \in Procs :
          (call[p].op = "send" /\ call[p].exc = "") =>
              Describes(call[p].mt, call[p].arg)
    /\ \A j \in 1 .. Len(net) :
          net[j].kind = "obj" => Describes(net[j].mt, net[j].payload)

C8_Witness ==
    /\ call[Sender].op = "send" /\ call[Sender].pc = "send"
    /\ call[Sender].arg.kind = "tuple"
    /\ call[Sender].mt.narr = 2
    /\ call[Sender].mt.ndims = <<0, 2>>
    /\ \E j \in 1 .. Len(net) :
          net[j].kind = "obj" /\ net[j].payload.kind = "ndarray"

\* ---------------------------------------------------------------------- C4
IsNodeAware(o) == o.cls = "NodeAwareCommunicatorBase"

Present(h) == h # None /\ h # NoAttr

\* The Initialized state of the builder: the guard of _init_comms is passed.
Built(o) == IsNodeAware(o) /\ Present(o.inter_mpi_comm)

Scopes(o) == <<o.intra_mpi_comm, o.inter_mpi_comm, o.intra_nccl_comm>>

\* C4 (idempotent lazy build): no object's scopes are constructed more than
\* once; a call of _init_comms on an object whose scopes do not exist builds
\* them (unless the underlying construction itself raises); every call on an
\* object whose scopes exist returns without raising and without calling
\* init_comms; and once built, an object's scopes stay the very handles the
\* first construction made, whatever is called later.
C4_IdempotentBuild ==
    [][\A p \in Procs : \A i \in DOMAIN comms[p] :
          LET o == comms[p][i]
              o2 == comms'[p][i]
          IN  /\ o2.nbuilt <= 1
              /\ (Calls(p, "_init_comms") /\ call'[p].obj = i /\ ~Built(o)
                    /\ call'[p].exc = "") =>
                     (Built(o2) /\ o2.nbuilt = 1
                        /\ call'[p].log = <<"init_comms">>)
              /\ Built(o) =>
                     /\ Scopes(o2) = Scopes(o)
                     /\ o2.nbuilt = o.nbuilt
                     /\ (Calls(p, "_init_comms") /\ call'[p].obj = i) =>
                            (call'[p].exc = "" /\ call'[p].log = << >>)]_vars

\* A second call on a process that is not its node's representative.
C4_Witness ==
    \E p \in Procs : \E i \in DOMAIN comms[p] :
        /\ call[p].pc = "done" /\ call[p].op = "_init_comms"
        /\ call[p].obj = i /\ call[p].exc = "" /\ call[p].log = << >>
        /\ comms[p][i].nbuilt = 1
        /\ comms[p][i].intra_rank > 0
        /\ comms[p][i].use_nccl

\* ---------------------------------------------------------------------- C5
Absent(o) ==
    /\ o.inter_mpi_comm = None
    /\ o.intra_mpi_comm = None
    /\ o.intra_nccl_comm = (IF o.use_nccl THEN None ELSE NoAttr)

AnyScope(o) ==
    Present(o.inter_mpi_comm) \/ Present(o.intra_mpi_comm)
        \/ Present(o.intra_nccl_comm)

\* C5 (no eager build): a node-aware communicator leaves its constructor with
\* every scope absent, and an object's scopes stay absent through every step
\* (rank, size, send, recv, split, ...) that is not a call of _init_comms on
\* that object.
C5_NoEagerBuild ==
    [][\A p \in Procs : \A i \in DOMAIN comms'[p] :
          LET o2 == comms'[p][i]
          IN  IsNodeAware(o2) =>
                /\ i \notin DOMAIN comms[p] => Absent(o2)
                /\ (i \in DOMAIN comms[p] /\ Absent(comms[p][i])
                      /\ ~(Calls(p, "_init_comms") /\ call'[p].obj = i))
                       => Absent(o2)
                /\ AnyScope(o2) => o2.nbuilt >= 1]_vars

\* Still Uninitialized after a completed transfer on the object.
C5_Witness ==
    \E p \in Procs : \E i \in DOMAIN comms[p] :
        /\ call[p].pc = "done" /\ call[p].op = "recv" /\ call[p].exc = ""
        /\ call[p].obj = i
        /\ IsNodeAware(comms[p][i]) /\ comms[p][i].use_nccl
        /\ Absent(comms[p][i])

\* ---------------------------------------------------------------------- C6
InLog(x, log) == \E j \in 1 .. Len(log) : log[j] = x

\* C6 (fail fast): constructing a node-aware communicator with use_nccl while
\* NCCL is unavailable raises RuntimeError before _init_ranks is called and
\* creates no object; no object with use_nccl exists when NCCL is unavailable
\* (so _init_comms never runs on one).
C6_FailFast ==
    [][\A p \in Procs :
          /\ (Calls(p, "NodeAwareCommunicatorBase") /\ call'[p].k = 1
                /\ ~ncclAvail) =>
                 /\ call'[p].exc = "RuntimeError"
                 /\ ~InLog("_init_ranks", call'[p].log)
                 /\ comms' = comms
          /\ \A i \in DOMAIN comms'[p] :
                 comms'[p][i].use_nccl => ncclAvail]_vars

C6_Witness ==
    \E p \in Procs :
        /\ call[p].pc = "done" /\ call[p].op = "NodeAwareCommunicatorBase"
        /\ call[p].k = 1 /\ ~ncclAvail
        /\ call[p].exc = "RuntimeError"
        /\ call[p].log = <<"CommunicatorBase.__init__">>

\* ---------------------------------------------------------------------- C7
\* C7 (split independence): split on any communicator returns a new
\* communicator of the same class whose scopes are absent.
C7_SplitReturnsSameClass ==
    \A p \in Procs :
        (call[p].pc = "done" /\ call[p].op = "split") =>
            /\ call[p].exc = ""
            /\ call[p].num \in DOMAIN comms[p]
            /\ comms[p][call[p].num].cls = comms[p][call[p].obj].cls
            /\ ~AnyScope(comms[p][call[p].num])

\* --------------------------------------------------------------------- C10
\* C10 (abstract extension points): broadcast_data and allreduce_grad, on
\* either class and in either builder state, raise NotImplementedError,
\* issue no transport call and change neither the communicator objects nor
\* the messages in flight.
C10_AbstractExtensionPoints ==
    [][\A p \in Procs :
          (Calls(p, "broadcast_data") \/ Calls(p, "allreduce_grad")) =>
              /\ call'[p].pc = "done"
              /\ call'[p].exc = "NotImplementedError"
              /\ call'[p].log = << >>
              /\ comms' = comms
              /\ net' = net]_vars

C10_Witness ==
    \E p \in Procs : \E i \in DOMAIN comms[p] :
        /\ call[p].pc = "done" /\ call[p].op = "broadcast_data"
        /\ call[p].obj = i /\ call[p].exc = "NotImplementedError"
        /\ Built(comms[p][i])
        /\ \E j \in DOMAIN comms[p] : ~IsNodeAware(comms[p][j])

\* ---------------------------------------------------------------------- C9
\* The processes that hold a node-aware communicator, and its record.
Discovered == {p \in Procs : Len(comms[p]) >= 1 /\ IsNodeAware(comms[p][1])}

Topo(p) == comms[p][1]

NodePos(p) == <<Topo(p).inter_rank, Topo(p).intra_rank>>

\* C9 (topology consistency): under any placement the records the processes
\* compute at construction are in range, the construction's rank assertion
\* never fails, processes of one host (and only those) share the node rank and
\* agree on the node's size, which is the number of processes placed on the
\* host, all agree on the node count, which is the number of hosts in use, and
\* distinct processes get distinct (node rank, node-local rank) pairs: with
\* the ranges and sizes, a bijection onto the positions of the nodes.
C9_TopologyConsistent ==
    /\ \A p \in Procs :
          (call[p].pc = "done" /\ call[p].op = "NodeAwareCommunicatorBase")
              => call[p].exc = ""
    /\ \A p \in Discovered :
          /\ 0 <= Topo(p).intra_rank /\ Topo(p).intra_rank < Topo(p).intra_size
          /\ 0 <= Topo(p).inter_rank /\ Topo(p).inter_rank < Topo(p).inter_size
          /\ Topo(p).intra_size = Cardinality({q \in Procs : host[q] = host[p]})
          /\ Topo(p).inter_size = Cardinality({host[q] : q \in Procs})
    /\ \A p, q \in Discovered :
          /\ (host[p] = host[q]) <=> (Topo(p).inter_rank = Topo(q).inter_rank)
          /\ host[p] = host[q] => Topo(p).intra_size = Topo(q).intra_size
          /\ Topo(p).inter_size = Topo(q).inter_size
          /\ NodePos(p) = NodePos(q) => p = q

\* Four processes, two per host, all constructed.
C9_Witness ==
    /\ Discovered = Procs
    /\ host = BlockPlacement
    /\ \A p \in Procs : Topo(p).intra_size = 2 /\ Topo(p).inter_size = 2
    /\ Cardinality({p \in Procs : Topo(p).intra_rank = 0}) = 2
    /\ {NodePos(p) : p \in Procs} = {<<0, 0>>, <<0, 1>>, <<1, 0>>, <<1, 1>>}

\* --------------------------------------------------------------------- C12
EmptyTuple == [kind |-> "tuple", items |-> << >>]

\* C12 (empty container): a send of an iterable with no elements does not
\* raise, returns having issued exactly one transport call, the header, whose
\* descriptor is a tuple of zero arrays, and adds that one message and no
\* bulk message to the channel; the recv that consumes that header returns at
\* once, without raising, the empty tuple, having removed that one message
\* and performed no bulk receive.
C12_EmptyContainer ==
    [][\A p \in Procs :
          /\ (Calls(p, "send") /\ call'[p].arg = EmptyTuple) =>
                /\ call'[p].pc = "done"
                /\ call'[p].exc = ""
                /\ call'[p].log = <<[fn |-> "send", data |-> << >>]>>
                /\ Len(net') = Len(net) + 1
                /\ SubSeq(net', 1, Len(net)) = net
                /\ net'[Len(net')].kind = "obj"
                /\ net'[Len(net')].mt.is_tuple
                /\ net'[Len(net')].mt.narr = 0
                /\ net'[Len(net')].mt.shapes = << >>
          /\ (Calls(p, "recv") /\ call'[p].sent = EmptyTuple) =>
                /\ call'[p].pc = "done"
                /\ call'[p].exc = ""
                /\ call'[p].value = EmptyTuple
                /\ call'[p].log = <<[fn |-> "recv", data |-> << >>]>>
                /\ Len(net') = Len(net) - 1]_vars

\* An empty tuple received while a later transfer's messages stay in flight.
C12_Witness ==
    /\ call[Receiver].pc = "done" /\ call[Receiver].op = "recv"
    /\ call[Receiver].sent = EmptyTuple
    /\ call[Receiver].value = EmptyTuple
    /\ call[Receiver].log = <<[fn |-> "recv", data |-> << >>]>>
    /\ Len(net) = 2

\* --------------------------------------------------------------------- C13
\* C13 (failed scope construction): a call of _init_comms in which the
\* underlying construction raises ends with that error raised to the caller
\* and leaves the object as it was, every scope absent (none half built);
\* as long as a call has ended that way its object is not Initialized; and
\* every call of _init_comms on an object that is not Initialized goes past
\* the guard and calls the underlying construction.
C13_FailedBuildLeavesUninitialized ==
    [][\A p \in Procs : \A i \in DOMAIN comms[p] :
          LET o == comms[p][i]
              o2 == comms'[p][i]
          IN  (Calls(p, "_init_comms") /\ call'[p].obj = i) =>
                /\ call'[p].pc = "done"
                /\ call'[p].exc # "" =>
                      /\ call'[p].exc = "TransportError"
                      /\ o2 = o
                      /\ Absent(o2)
                      /\ ~Built(o2)
                /\ ~Built(o) => call'[p].log = <<"init_comms">>
                /\ (call'[p].log = << >>) => (Built(o) /\ call'[p].exc = "")]_vars

\* The construction has failed on an object that wants the NCCL scope too.
C13_Witness ==
    \E p \in Procs : \E i \in DOMAIN comms[p] :
        /\ call[p].pc = "done" /\ call[p].op = "_init_comms"
        /\ call[p].obj = i /\ call[p].exc = "TransportError"
        /\ call[p].log = <<"init_comms">>
        /\ comms[p][i].use_nccl
        /\ Absent(comms[p][i])

\* --------------------------------------------------------------------- C14
\* C14 (no retry, no continuation): a step in which a transport call of a
\* send or recv raises ends the call at once with that error, having issued
\* that one transfer once; a send that has failed has issued a prefix of its
\* transfers, each once and in order, so none after the failed one; a recv
\* that has failed has returned nothing, whatever arrays it had received; and
\* a call that has ended issues nothing more: its frame stays as it is until
\* the caller goes on.
C14_NoRetryNoContinuation ==
    [][\A p \in Procs :
          /\ (call[p].exc = "" /\ call'[p].exc = "TransportError") =>
                /\ call'[p].pc = "done"
                /\ call'[p].op \in {"send", "recv"}
                /\ Len(call'[p].log) = Len(call[p].log) + 1
                /\ SubSeq(call'[p].log, 1, Len(call[p].log)) = call[p].log
                /\ call'[p].value = NoPayload
          /\ (call'[p].op = "send" /\ call'[p].exc = "TransportError") =>
                /\ IsPrefix(call'[p].log, SendCalls(call'[p].arg))
          /\ (call'[p].op = "recv" /\ call'[p].exc # "") =>
                /\ call'[p].value = NoPayload
                /\ Len(call'[p].log) <= 1 + Len(call'[p].mt.shapes)
          /\ call[p].pc = "done" => call'[p] \in {call[p], Idle}]_vars

\* A send that failed at the first of two bulk transfers and a recv that
\* failed at the second of two bulk receives.
C14_Witness ==
    /\ call[Sender].pc = "done" /\ call[Sender].op = "send"
    /\ call[Sender].exc = "TransportError"
    /\ Len(call[Sender].todo) = 2 /\ Len(call[Sender].log) = 2
    /\ call[Receiver].pc = "done" /\ call[Receiver].op = "recv"
    /\ call[Receiver].exc = "TransportError"
    /\ Len(call[Receiver].msg) = 1 /\ Len(call[Receiver].log) = 3
    /\ call[Receiver].value = NoPayload

\* --------------------------------------------------------------------- C15
\* A recv that has allocated a receive buffer, and the shape it was for.
Allocated(p) == call[p].op = "recv" /\ Len(call[p].log) >= 2

AllocShape(p) == call[p].mt.shapes[Len(call[p].log) - 1]

NonTupleBadCount(mt) == ~mt.is_tuple /\ Len(mt.shapes) # 1

\* The step removes one header message from the channel and nothing else.
ConsumesHeaderOnly(mt) ==
    \E j \in 1 .. Len(net) :
        net[j].kind = "obj" /\ net[j].mt = mt /\ net' = Without(net, j)

\* A recv of a descriptor that is not a tuple and declares other than one
\* shape raises AssertionError in the step that reads the header, having
\* consumed the header and no bulk transfer.
C11_AssertionPart ==
    \A p \in Procs :
        (Calls(p, "recv") /\ ConsumesHeaderOnly(call'[p].mt)
           /\ NonTupleBadCount(call'[p].mt)) =>
              /\ call'[p].pc = "done"
              /\ call'[p].exc = "AssertionError"
              /\ call'[p].log = <<[fn |-> "recv", data |-> << >>]>>
              /\ call'[p].value = NoPayload

\* A recv that has ended after reading a descriptor that is not a tuple and
\* declares one shape has consumed one bulk transfer and returned a single
\* array of the declared shape.
C11_SingleArrayPart ==
    \A p \in Procs :
        (call'[p].op = "recv" /\ call'[p].pc = "done"
           /\ call'[p].exc # "UnpicklingError"
           /\ ~call'[p].mt.is_tuple /\ Len(call'[p].mt.shapes) = 1) =>
              /\ call'[p].exc = ""
              /\ Len(call'[p].log) = 2
              /\ call'[p].value.kind = "ndarray"
              /\ Len(call'[p].value.items) = 1
              /\ call'[p].value.items[1].shape = call'[p].mt.shapes[1]

\* A recv that has returned after reading a tuple descriptor has returned a
\* tuple with one array per declared shape.
C11_TuplePart ==
    \A p \in Procs :
        (call'[p].op = "recv" /\ call'[p].pc = "done" /\ call'[p].exc = ""
           /\ call'[p].mt.is_tuple) =>
              /\ call'[p].value.kind = "tuple"
              /\ Len(call'[p].value.items) = Len(call'[p].mt.shapes)

\* C11 (recv on a non-tuple descriptor): recv of a descriptor that is not a
\* tuple raises AssertionError before any bulk transfer unless exactly one
\* shape is declared, and otherwise consumes exactly one bulk transfer and
\* returns a single array of the declared shape; recv of a tuple descriptor
\* returns a tuple, also for one element.
C11_NonTupleRecv ==
    [][C11_AssertionPart /\ C11_SingleArrayPart /\ C11_TuplePart]_vars

C11_AssertionOnly == [][C11_AssertionPart]_vars

C11_TupleOnly == [][C11_TuplePart]_vars

\* --------------------------------------------------------------------- C17
\* Inter and intra scope present, the NCCL scope present exactly with use_nccl.
AllBuilt(o) ==
    /\ Present(o.inter_mpi_comm)
    /\ Present(o.intra_mpi_comm)
    /\ Present(o.intra_nccl_comm) <=> o.use_nccl

\* C17 (all-or-nothing scope state): every node-aware communicator has
\* either no scope at all or the inter and intra scopes both, with the NCCL
\* scope exactly when use_nccl is set; and no call of _init_comms ends in
\* AssertionError.
C17_AllOrNothing ==
    /\ \A p \in Procs : \A i \in DOMAIN comms[p] :
          IsNodeAware(comms[p][i]) =>
              (Absent(comms[p][i]) \/ AllBuilt(comms[p][i]))
    /\ \A p \in Procs :
          call[p].op = "_init_comms" => call[p].exc # "AssertionError"

\* One process holds a built communicator with the NCCL scope and a built
\* one without, and has just taken the early return on one of them.
C17_Witness ==
    \E p \in Procs : \E i, j \in DOMAIN comms[p] :
        /\ AllBuilt(comms[p][i]) /\ comms[p][i].use_nccl
        /\ IsNodeAware(comms[p][j]) /\ AllBuilt(comms[p][j])
        /\ ~comms[p][j].use_nccl
        /\ call[p].pc = "done" /\ call[p].op = "_init_comms"
        /\ call[p].log = << >>

\* --------------------------------------------------------------------- C19
\* The topology record of a communicator object.
TopologyRecord(o) ==
    <<o.intra_rank, o.intra_size, o.inter_rank, o.inter_size>>

\* The step moves at most one message, and that one over group h: sent by
\* process p or addressed to it.
MovesOnlyOver(h, p) ==
    \/ net' = net
    \/ /\ Len(net') = Len(net) + 1
       /\ SubSeq(net', 1, Len(net)) = net
       /\ net'[Len(net')].ctx = h.ctx
       /\ net'[Len(net')].src = mpi_rank(h, p)
    \/ \E j \in 1 .. Len(net) :
          /\ net' = Without(net, j)
          /\ net[j].ctx = h.ctx
          /\ net[j].dst = mpi_rank(h, p)

\* C19 (transfers and the hierarchical state): every step of a send or recv,
\* on a communicator whose scopes are built or not, leaves every communicator
\* object as it is (topology record, use_nccl, scopes, number of
\* constructions) and moves messages over the object's base group mpi_comm
\* only; the header a send issues is determined by the payload, the base
\* group and the arguments alone; and a call of _init_comms leaves its
\* object's topology record, use_nccl, class and base group, every other
\* object and the messages in flight as they are.
C19_TransfersIgnoreScopes ==
    [][\A p \in Procs :
          /\ (call'[p].op \in {"send", "recv"} /\ call'[p] # call[p]) =>
                /\ comms' = comms
                /\ MovesOnlyOver(comms[p][call'[p].obj].mpi_comm, p)
          /\ (Calls(p, "send") /\ call'[p].exc = "") =>
                LET h == comms[p][call'[p].obj].mpi_comm
                IN  /\ call'[p].mt = _MessageType(call'[p].arg)
                    /\ net' = Append(net,
                           ObjMsg(h, mpi_rank(h, p), call'[p].peer,
                                  call'[p].tag, call'[p].mt, call'[p].arg))
          /\ Calls(p, "_init_comms") =>
                /\ net' = net
                /\ DOMAIN comms'[p] = DOMAIN comms[p]
                /\ \A i \in DOMAIN comms[p] :
                      LET o == comms[p][i]
                          o2 == comms'[p][i]
                      IN  /\ i # call'[p].obj => o2 = o
                          /\ o2.mpi_comm = o.mpi_comm
                          /\ TopologyRecord(o2) = TopologyRecord(o)
                          /\ o2.use_nccl = o.use_nccl
                          /\ o2.cls = o.cls]_vars

\* An array sent to itself and received over a communicator whose scopes,
\* the NCCL one included, are built, on a process that is not its node's
\* first.
C19_Witness ==
    \E p \in Procs : \E i \in DOMAIN comms[p] :
        /\ call[p].pc = "done" /\ call[p].op = "recv" /\ call[p].obj = i
        /\ call[p].exc = "" /\ call[p].value = call[p].sent
        /\ IsValid(call[p].sent)
        /\ AllBuilt(comms[p][i]) /\ comms[p][i].use_nccl
        /\ comms[p][i].intra_rank > 0
        /\ comms[p][i].intra_mpi_comm # comms[p][i].mpi_comm

\* --------------------------------------------------------------------- C16
\* A call that has returned (it has not raised).
Returned(p, op) ==
    call[p].pc = "done" /\ call[p].op = op /\ call[p].exc = ""

\* A send that has returned has issued the header and every bulk transfer; a
\* recv that has returned has consumed the header and one bulk transfer per
\* declared array.
ReturnsOnlyWhenComplete ==
    /\ Returned(Sender, "send") =>
          call[Sender].log = SendCalls(call[Sender].arg)
    /\ Returned(Receiver, "recv") =>
          /\ Len(call[Receiver].log) = 1 + Len(call[Receiver].mt.shapes)
          /\ Len(call[Receiver].msg) = Len(call[Receiver].mt.shapes)

\* A recv that has read the header of a send's valid payload.
RecvMatched ==
    call[Receiver].op = "recv" /\ call[Receiver].pc = "recv"
        /\ IsValid(call[Receiver].sent)

\* C16 (matched transfer terminates): over a reliable and fair transport a
\* send of a valid payload that is in its loop eventually returns, and the
\* recv that has read its header eventually returns; neither returns before
\* all of its transfers are done.
C16_MatchedTransferTerminates ==
    /\ []ReturnsOnlyWhenComplete
    /\ (call[Sender].pc = "send") ~> Returned(Sender, "send")
    /\ RecvMatched ~> Returned(Receiver, "recv")

C16_SendTerminates ==
    /\ []ReturnsOnlyWhenComplete
    /\ (call[Sender].pc = "send") ~> Returned(Sender, "send")

\* --------------------------------------------------------------------- C18
\* The bulk transfers the receiver's recv in progress has yet to consume, and
\* those the sender's send in progress has yet to issue.
Pending(p) ==
    IF call[p].pc = "recv" THEN Len(call[p].mt.shapes) - (call[p].k - 1) ELSE 0

Unsent(p) ==
    IF call[p].pc = "send" THEN Len(call[p].todo) - (call[p].k - 1) ELSE 0

\* Reads the channel q as need bulk messages followed by whole transfers (a
\* header, then one bulk message per declared array): the number of bulk
\* messages missing at the end, or -1 if q does not read that way.
RECURSIVE Missing(_, _)
Missing(q, need) ==
    IF q = << >> THEN need
    ELSE IF need > 0
    THEN IF Head(q).kind = "buf" THEN Missing(Tail(q), need - 1) ELSE -1
    ELSE IF Head(q).kind = "obj"
    THEN Missing(Tail(q), Len(Head(q).mt.shapes))
    ELSE -1

\* C18 (alignment over sequences): through any sequence of sends from A and
\* recvs at B with one tag, the channel always reads as the bulk messages the
\* recv in progress still expects followed by whole transfers, the last one
\* short by exactly what the send in progress has yet to issue; so no recv
\* reads bulk data as a header or a header as bulk data, a recv that has
\* ended has consumed as many bulk transfers as its send issued and has
\* returned that send's payload, and the channel is empty whenever every
\* header sent has been received and no call is in progress.
C18_MessageAlignment ==
    /\ Missing(net, Pending(Receiver)) = Unsent(Sender)
    /\ (call[Receiver].op = "recv" /\ call[Receiver].pc = "done") =>
          /\ call[Receiver].exc \notin {"UnpicklingError", "TransportError"}
          /\ Len(call[Receiver].log) = 1 + Len(call[Receiver].sent.items)
          /\ call[Receiver].value = call[Receiver].sent
    /\ (Pending(Receiver) = 0 /\ Unsent(Sender) = 0
          /\ \A j \in 1 .. Len(net) : net[j].kind # "obj") => net = << >>

====
